---- MODULE Spec2Model ----
(***************************************************************************)
(* A model of the vision-x pixel-grid core: ImageData<T, N> (src/core.rs), *)
(* its geometry transforms resize and crop (src/imgproc/frame.rs), the     *)
(* colourspace conversions of the Image enum (src/imgproc/color.rs) and    *)
(* the dispatch of io::write (src/io.rs).                                  *)
(*                                                                         *)
(* img    : the image the caller holds (an Image variant and its           *)
(*          ImageData: declared width and height plus the ndarray grid)    *)
(* res    : the outcome of the last call made on img                       *)
(* origin : how img was obtained (constructed, or adopted from a result)   *)
(***************************************************************************)
EXTENDS Integers, Sequences, FiniteSets, TLC

VARIABLES img, res, origin

vars == <<img, res, origin>>

---------------------------------------------------------------------------
(* Bounds of the model.                                                    *)

\* largest row count / column count of a grid handed to ImageData::new
MaxDim == 2
\* largest number of cells of such a grid
MaxCells == 4
\* largest target width / height passed to resize
MaxResize == 4
\* largest number of cells of an image that is converted
MaxColorCells == 3
\* largest of the consecutive low 8-bit samples of a converted pixel
MaxSample == 2

\* coordinates passed to get_pixel_at, set_pixel_at and crop
Coords == 0 .. (MaxDim + 1)
\* a u32 dimension large enough for 3 * WideDim to exceed u32::MAX
WideDim == 21846 * 65536
\* declared dimensions (u32) used by new, set_width and set_height
DeclDims == (0 .. MaxDim) \cup {WideDim}
\* target dimensions passed to resize
ResizeDims == 0 .. MaxResize

---------------------------------------------------------------------------
(* The nine variants of the Image enum, named by Image::to_str.            *)

Formats ==
    {"grayscale", "grayscale_alpha", "rgb", "rgba", "grayscale16",
     "grayscale_alpha16", "rgb16", "rgba16", "hsv"}

\* the const parameter N of ImageData<T, N> behind each variant
Channels(fmt) ==
    CASE fmt \in {"grayscale", "grayscale16"} -> 1
      [] fmt \in {"grayscale_alpha", "grayscale_alpha16"} -> 2
      [] fmt \in {"rgb", "rgb16", "hsv"} -> 3
      [] fmt \in {"rgba", "rgba16"} -> 4

\* An f32 sample is a rational n/d with d > 0; d = 0 encodes the
\* non-numbers: 0/0 is NaN, 1/0 is +infinity, -1/0 is -infinity.
F32(n, d) == [n |-> n, d |-> d]
NaN == F32(0, 0)

\* T::default() for the sample type T of a variant
DefaultSample(fmt) == IF fmt = "hsv" THEN F32(0, 1) ELSE 0

\* [T::default(); N]
DefaultPixel(fmt) == [c \in 1 .. Channels(fmt) |-> DefaultSample(fmt)]

---------------------------------------------------------------------------
(* ndarray::Array2<[T; N]>: a shape (nrows, ncols), the logical contents   *)
(* data[<<row, col>>] and the memory order of the elements: "C" is row     *)
(* major (the standard layout), "F" is column major.                       *)

Cells(nrows, ncols) ==
    IF nrows = 0 \/ ncols = 0 THEN {} ELSE (0 .. nrows - 1) \X (0 .. ncols - 1)

\* a shape with at most one row or one column has a single memory order
Layout(nrows, ncols, order) == IF nrows <= 1 \/ ncols <= 1 THEN "C" ELSE order

\* the array of that shape and order whose element (row, col) is
\* f[<<row, col>>]
Array2(nrows, ncols, order, f) ==
    [nrows |-> nrows, ncols |-> ncols,
     order |-> Layout(nrows, ncols, order),
     data  |-> [rc \in Cells(nrows, ncols) |-> f[rc]]]

\* Array2::from_elem((nrows, ncols), elem)
FromElem(nrows, ncols, elem) ==
    Array2(nrows, ncols, "C", [rc \in Cells(nrows, ncols) |-> elem])

\* whether pixels[(row, col)] is inside the array (it panics otherwise)
InArray(a, row, col) == row < a.nrows /\ col < a.ncols

\* the elements an array holds
Elements(a) == {a.data[rc] : rc \in DOMAIN a.data}

\* pixels.map(f): same shape and memory order, f applied to every element
MapArray(a, f) ==
    [nrows |-> a.nrows, ncols |-> a.ncols, order |-> a.order,
     data  |-> [rc \in DOMAIN a.data |-> f[a.data[rc]]]]

\* the k-th (from 0) element visited by ArrayBase::for_each.  ndarray
\* documents the order as arbitrary; the implementation folds over the
\* elements in memory order.
VisitCell(a, k) ==
    IF a.order = "C"
    THEN <<k \div a.ncols, k % a.ncols>>
    ELSE <<k % a.nrows, k \div a.nrows>>

---------------------------------------------------------------------------
(* u32 arithmetic of resize.  TLC integers are 32-bit signed, so a product *)
(* of two u32 values is kept as two 16-bit limbs: hi * 2^16 + lo.  The     *)
(* operands of the model are below 2^31, the smaller of the two factors   *)
(* of a product below 2^15 and a divisor d below 2^22.                     *)

WideMul(x, w) ==
    LET a  == IF x <= w THEN x ELSE w
        b  == IF x <= w THEN w ELSE x
        lo == a * (b % 2^16)
        hi == a * (b \div 2^16) + (lo \div 2^16)
    IN  [hi |-> hi, lo |-> lo % 2^16]

\* x * w does not fit a u32: a panic in a build with overflow checks
\* (debug), a wrap-around modulo 2^32 otherwise (release)
MulOverflows(x, w) == WideMul(x, w).hi >= 2^16

\* (hi * 2^16 + lo) / d, the low limb brought down eight bits at a time
DivLimbs(hi, lo, d) ==
    LET t1 == (hi % d) * 2^8 + (lo \div 2^8)
        t2 == (t1 % d) * 2^8 + (lo % 2^8)
    IN  (hi \div d) * 2^16 + (t1 \div d) * 2^8 + (t2 \div d)

\* (x * w) / d in u32, the product taken modulo 2^32
WrappingMulDiv(x, w, d) ==
    LET p == WideMul(x, w)
    IN  DivLimbs(p.hi % 2^16, p.lo, d)

---------------------------------------------------------------------------
(* ImageData<T, N> (src/core.rs), wrapped in its Image variant fmt.        *)

\* ImageData::new: the fields are stored as given, nothing is validated
ImageDataNew(fmt, width, height, pixels) ==
    [fmt |-> fmt, width |-> width, height |-> height, pixels |-> pixels]

\* the declared dimensions are those of the grid (documented precondition)
Consistent(im) == im.height = im.pixels.nrows /\ im.width = im.pixels.ncols

\* the outcome of a call: status "ok"/"some"/"none"/"err"/"panic", the
\* returned value and, for an Err, the error kind and the values its
\* message is formatted from
Outcome(status, value, err) == [status |-> status, value |-> value, err |-> err]
Panic == Outcome("panic", <<>>, <<>>)
ErrorKind(kind, msg) == [kind |-> kind, msg |-> msg]

\* ImageData::set_height
SetHeightOf(im, height) == [im EXCEPT !.height = height]

\* set_width refusing a width that is not the column count of the grid
SetWidthChecked(im, width) ==
    IF width = im.pixels.ncols THEN [im EXCEPT !.width = width] ELSE im

\* ImageData::set_width
SetWidthOf(im, width) == [im EXCEPT !.width = width]

\* ImageData::set_pixels
SetPixelsOf(im, pixels) == [im EXCEPT !.pixels = pixels]

\* get_pixel_at with the bounds test off by one (<= for <)
GetPixelAtOffByOne(im, x, y) ==
    IF x <= im.width /\ y <= im.height
    THEN IF InArray(im.pixels, y, x)
         THEN Outcome("some", im.pixels.data[<<y, x>>], <<>>)
         ELSE Panic
    ELSE Outcome("none", <<>>, <<>>)

\* ImageData::get_pixel_at(x, y) -> Option<&[T; N]>
GetPixelAt(im, x, y) ==
    IF x < im.width /\ y < im.height
    THEN IF InArray(im.pixels, y, x)
         THEN Outcome("some", im.pixels.data[<<y, x>>], <<>>)
         ELSE Panic
    ELSE Outcome("none", <<>>, <<>>)

\* set_pixel_at writing the value into every cell of row y
SetPixelAtFillsRow(im, x, y, value) ==
    IF x < im.width /\ y < im.height
    THEN IF InArray(im.pixels, y, x)
         THEN Outcome("ok",
                      [im EXCEPT !.pixels.data =
                          [rc \in DOMAIN @ |->
                              IF rc[1] = y THEN value ELSE @[rc]]],
                      <<>>)
         ELSE Panic
    ELSE Outcome("err", im,
                 ErrorKind("IndexOutofBound", <<x, y, im.width, im.height>>))

\* set_pixel_at testing the column only
SetPixelAtIgnoresRow(im, x, y, value) ==
    IF x < im.width
    THEN IF InArray(im.pixels, y, x)
         THEN Outcome("ok", [im EXCEPT !.pixels.data[<<y, x>>] = value], <<>>)
         ELSE Panic
    ELSE Outcome("err", im,
                 ErrorKind("IndexOutofBound", <<x, y, im.width, im.height>>))

\* ImageData::set_pixel_at(x, y, value) -> VisionXResult<()>; the value of
\* the outcome is the ImageData after the call
SetPixelAt(im, x, y, value) ==
    IF x < im.width /\ y < im.height
    THEN IF InArray(im.pixels, y, x)
         THEN Outcome("ok", [im EXCEPT !.pixels.data[<<y, x>>] = value], <<>>)
         ELSE Panic
    ELSE Outcome("err", im,
                 ErrorKind("IndexOutofBound", <<x, y, im.width, im.height>>))

\* ImageData::flatten_pixels -> Vec<T>: every channel of every element in
\* the order for_each visits them
FlattenPixels(im) ==
    LET n == Channels(im.fmt)
        a == im.pixels
    IN  [i \in 1 .. (a.nrows * a.ncols * n) |->
            a.data[VisitCell(a, (i - 1) \div n)][((i - 1) % n) + 1]]

---------------------------------------------------------------------------
(* Geometry transforms (src/imgproc/frame.rs).                             *)

\* resize declaring the dimensions of the source for those of the result
ResizeKeepsDeclared(im, width, height, overflow_checks) ==
    Outcome("ok",
            ImageDataNew(im.fmt, im.width, im.height,
                         FromElem(height, width, DefaultPixel(im.fmt))),
            <<>>)

\* ImageData::resize(width, height); overflow_checks tells whether the
\* build panics on u32 overflow or wraps
Resize(im, width, height, overflow_checks) ==
    LET old_x(x) == WrappingMulDiv(x, im.width, width)
        old_y(y) == WrappingMulDiv(y, im.height, height)
        pixel(y, x) == GetPixelAt(im, old_x(x), old_y(y))
        dest == Cells(height, width)
        \* some product of the loop overflows: the products grow with x
        \* and y, and the loop body runs only when width, height > 0
        overflow == /\ width > 0 /\ height > 0
                    /\ \/ MulOverflows(width - 1, im.width)
                       \/ MulOverflows(height - 1, im.height)
        resized == [rc \in dest |->
                       IF pixel(rc[1], rc[2]).status = "some"
                       THEN pixel(rc[1], rc[2]).value
                       ELSE DefaultPixel(im.fmt)]
    IN  IF \/ overflow_checks /\ overflow
           \/ \E rc \in dest : pixel(rc[1], rc[2]).status = "panic"
        THEN Panic
        ELSE Outcome("ok",
                     ImageDataNew(im.fmt, width, height,
                                  Array2(height, width, "C", resized)),
                     <<>>)

\* a slice that always starts at the origin of the array
SliceFromOrigin(a, y0, y1, x0, x1, order) ==
    LET at == [rc \in Cells(y1 - y0, x1 - x0) |-> a.data[rc]]
    IN  Array2(y1 - y0, x1 - x0, order, at)

\* pixels.slice(s![y0..y1, x0..x1]).to_owned(), for y0 <= y1 and
\* x0 <= x1 inside the array; order is the memory order of the copy
SliceToOwned(a, y0, y1, x0, x1, order) ==
    LET at == [rc \in Cells(y1 - y0, x1 - x0) |->
                  a.data[<<y0 + rc[1], x0 + rc[2]>>]]
    IN  Array2(y1 - y0, x1 - x0, order, at)

\* the memory orders to_owned can give the copy: that of the source when
\* the slice is contiguous in it, otherwise the version of ndarray decides
OwnedOrders(a, y0, y1, x0, x1) ==
    IF a.order = "C" THEN {"C"}
    ELSE IF y0 = 0 /\ y1 = a.nrows THEN {"F"}
    ELSE {"C", "F"}

\* the test of crop with the strict comparisons relaxed
CropTestNonStrict(point1, point2, dim) ==
    /\ point1[1] <= point2[1] /\ point1[2] <= point2[2]
    /\ point2[1] <= dim[1] /\ point2[2] <= dim[2]

\* the test crop makes on its points against dim = (width, height)
CropTest(point1, point2, dim) ==
    /\ point1[1] < point2[1] /\ point1[2] < point2[2]
    /\ point2[1] <= dim[1] /\ point2[2] <= dim[2]

\* ImageData::crop(point1, point2) -> VisionXResult<Self>
Crop(im, point1, point2, order) ==
    LET dim == <<im.width, im.height>>
    IN  IF CropTest(point1, point2, dim)
        THEN IF point2[2] <= im.pixels.nrows /\ point2[1] <= im.pixels.ncols
             THEN Outcome("ok",
                          ImageDataNew(im.fmt,
                                       point2[1] - point1[1],
                                       point2[2] - point1[2],
                                       SliceToOwned(im.pixels,
                                                    point1[2], point2[2],
                                                    point1[1], point2[1],
                                                    order)),
                          <<>>)
             ELSE Panic
        ELSE Outcome("err", <<>>,
                     ErrorKind("IndexOutofBound",
                               <<point1[1], point1[2], point2[1], point2[2],
                                 dim[1], dim[2]>>))

---------------------------------------------------------------------------
(* f32 arithmetic of the conversions, on the rationals n/d defined above.  *)
(* The operators compute the exact real result (the rounding error of f32  *)
(* is left out); NaN and the infinities behave as in IEEE 754.             *)

Abs(i) == IF i < 0 THEN -i ELSE i
Sign(i) == IF i < 0 THEN -1 ELSE IF i > 0 THEN 1 ELSE 0

RECURSIVE GCD(_, _)
GCD(a, b) == IF b = 0 THEN a ELSE GCD(b, a % b)

\* n/d in lowest terms with d >= 0
Rat(n, d) ==
    IF d = 0 THEN F32(Sign(n), 0)
    ELSE LET g == GCD(Abs(n), Abs(d))
         IN  F32(Sign(d) * (n \div g), Abs(d) \div g)

\* `i as f32` for an integer sample
FromInt(i) == F32(i, 1)
IsNaN(a) == a.n = 0 /\ a.d = 0

FAdd(a, b) ==
    IF a.d = 0 \/ b.d = 0 THEN Rat(a.n * b.d + b.n * a.d, 0)
    ELSE LET g == GCD(a.d, b.d)
         IN  Rat(a.n * (b.d \div g) + b.n * (a.d \div g), (a.d \div g) * b.d)
FNeg(a) == F32(-a.n, a.d)
FSub(a, b) == FAdd(a, FNeg(b))
FMul(a, b) ==
    IF a.d = 0 \/ b.d = 0 THEN Rat(a.n * b.n, 0)
    ELSE LET g1 == GCD(Abs(a.n), b.d)
             g2 == GCD(Abs(b.n), a.d)
         IN  Rat((a.n \div g1) * (b.n \div g2), (a.d \div g2) * (b.d \div g1))
FDiv(a, b) ==
    IF IsNaN(a) \/ IsNaN(b) \/ (a.d = 0 /\ b.d = 0) THEN NaN
    ELSE FMul(a, IF b.n = 0 THEN F32(1, 0) ELSE F32(Sign(b.n) * b.d, Abs(b.n)))
FAbs(a) == F32(Abs(a.n), a.d)

\* comparisons: every comparison with NaN is false
FLt(a, b) ==
    /\ ~IsNaN(a) /\ ~IsNaN(b)
    /\ IF a.d = 0 /\ b.d = 0 THEN a.n < b.n ELSE a.n * b.d < b.n * a.d
FEq(a, b) == ~IsNaN(a) /\ ~IsNaN(b) /\ a = b
FGe(a, b) == FLt(b, a) \/ FEq(a, b)

\* f32::max and f32::min: a NaN argument is ignored
FMax(a, b) == IF IsNaN(a) THEN b ELSE IF IsNaN(b) THEN a ELSE IF FLt(a, b) THEN b ELSE a
FMin(a, b) == IF IsNaN(a) THEN b ELSE IF IsNaN(b) THEN a ELSE IF FLt(b, a) THEN b ELSE a

\* the integer part of a finite a, towards zero
Trunc(a) == Sign(a.n) * (Abs(a.n) \div a.d)

\* a % b of f32: the remainder of the division truncated towards zero
FRem(a, b) ==
    IF a.d = 0 \/ IsNaN(b) \/ b.n = 0 THEN NaN
    ELSE IF b.d = 0 THEN a
    ELSE FSub(a, FMul(FromInt(Trunc(FDiv(a, b))), b))

\* f32::round: to the nearest integer, halves away from zero
FRound(a) ==
    IF a.d = 0 THEN a
    ELSE FromInt(Sign(a.n) * ((2 * Abs(a.n) + a.d) \div (2 * a.d)))

\* `a as u8`: truncated towards zero and saturated to 0..255, NaN gives 0
AsU8(a) ==
    IF IsNaN(a) THEN 0
    ELSE IF a.d = 0 THEN (IF a.n > 0 THEN 255 ELSE 0)
    ELSE IF Trunc(a) < 0 THEN 0
    ELSE IF Trunc(a) > 255 THEN 255
    ELSE Trunc(a)

---------------------------------------------------------------------------
(* f32 arithmetic of rgb_to_gray, bit for bit.  Its values are below 512   *)
(* and multiples of 2^-27, kept as int + frac * 2^-27 with frac < 2^27.    *)
(* Every operation rounds its exact result to the nearest f32 (24          *)
(* significant bits), ties to the even mantissa.                           *)

\* the f32 nearest to 0.299, 0.587 and 0.114, in units of 2^-27
Luma299 == 40131100
Luma587 == 78785808
Luma114 == 15300821

\* the position of the leading bit of v >= 1
Log2(v) == CHOOSE k \in 0 .. 28 : 2^k <= v /\ v < 2^(k + 1)

\* the f32 nearest to int + frac * 2^-27
F32Nearest(int, frac) ==
    LET ulp == IF int >= 1 THEN 2^(Log2(int) + 4)
               ELSE IF frac >= 2^24 THEN 2^(Log2(frac) - 23)
               ELSE 1
        q == frac \div ulp
        rest == frac % ulp
        up == 2 * rest > ulp \/ (2 * rest = ulp /\ q % 2 = 1)
        kept == (IF up THEN q + 1 ELSE q) * ulp
    IN  IF kept >= 2^27
        THEN [int |-> int + 1, frac |-> kept - 2^27]
        ELSE [int |-> int, frac |-> kept]

\* coef * (sample as f32) for a coefficient below 1 and an 8-bit sample
F32MulU8(coef, sample) ==
    LET hi == sample * (coef \div 2^14)
        lo == sample * (coef % 2^14)
        mid == hi + (lo \div 2^14)
    IN  F32Nearest(mid \div 2^13, (mid % 2^13) * 2^14 + (lo % 2^14))

\* a + b of f32
F32Sum(a, b) ==
    F32Nearest(a.int + b.int + ((a.frac + b.frac) \div 2^27),
               (a.frac + b.frac) % 2^27)

\* a.round() as u8 for a >= 0: halves go up, the cast saturates at 255
RoundAsU8(a) ==
    LET n == a.int + (IF a.frac >= 2^26 THEN 1 ELSE 0)
    IN  IF n > 255 THEN 255 ELSE n

---------------------------------------------------------------------------
(* Pixel conversions (src/imgproc/color.rs).                               *)

\* Image::downcast_8bit(pixel: u16) -> u8
Downcast8bit(pixel) == AsU8(FDiv(FromInt(pixel), FromInt(65535)))

\* the 16-bit grayscale arms: (px as f32 / 65535.0 * 255.0).round() as u8
Gray16To8(sample) ==
    AsU8(FRound(FMul(FDiv(FromInt(sample), FromInt(65535)), FromInt(255))))

\* Image::rgb_to_gray(rgb: &[u8; 3]) -> [u8; 1]
RgbToGray(rgb) ==
    <<RoundAsU8(F32Sum(F32Sum(F32MulU8(Luma299, rgb[1]),
                              F32MulU8(Luma587, rgb[2])),
                       F32MulU8(Luma114, rgb[3])))>>

\* Image::rgb_to_hsv(rgb: &[u8; 3]) -> [f32; 3]
RgbToHsv(rgb) ==
    LET r_prime == FDiv(FromInt(rgb[1]), FromInt(255))
        g_prime == FDiv(FromInt(rgb[2]), FromInt(255))
        b_prime == FDiv(FromInt(rgb[2]), FromInt(255))
        c_max == FMax(r_prime, FMax(g_prime, b_prime))
        c_min == FMin(r_prime, FMin(g_prime, b_prime))
        delta == FSub(c_max, c_min)
        h == IF FEq(c_max, r_prime)
             THEN FRem(FDiv(FSub(g_prime, b_prime), delta), FromInt(6))
             ELSE IF FEq(c_max, g_prime)
             THEN FAdd(FDiv(FSub(b_prime, r_prime), delta), FromInt(2))
             ELSE IF FEq(c_max, b_prime)
             THEN FAdd(FDiv(FSub(r_prime, g_prime), delta), FromInt(4))
             ELSE FromInt(0)
        s == IF FEq(c_max, FromInt(0)) THEN FromInt(0) ELSE FDiv(delta, c_max)
        v == c_max
    IN  <<h, s, v>>

\* Image::hsv_to_rgb(hsv: &[f32; 3]) -> [u8; 3]
HsvToRgb(hsv) ==
    LET chroma == FMul(hsv[2], hsv[3])
        h_prime == FDiv(hsv[1], FromInt(60))
        x == FMul(chroma,
                  FSub(FromInt(1),
                       FAbs(FSub(FRem(h_prime, FromInt(2)), FromInt(1)))))
        m == FSub(hsv[2], chroma)
        zero == FromInt(0)
        In(lo, hi) == FGe(hsv[1], FromInt(lo)) /\ FLt(hsv[1], FromInt(hi))
        prime == IF In(0, 60) THEN <<chroma, x, zero>>
                 ELSE IF In(60, 120) THEN <<x, chroma, zero>>
                 ELSE IF In(120, 180) THEN <<zero, chroma, x>>
                 ELSE IF In(180, 240) THEN <<zero, x, chroma>>
                 ELSE IF In(240, 300) THEN <<x, zero, chroma>>
                 ELSE IF In(300, 360) THEN <<chroma, zero, x>>
                 ELSE <<zero, zero, zero>>
        channel(c) == AsU8(FRound(FAdd(c, FMul(m, FromInt(255)))))
    IN  <<channel(prime[1]), channel(prime[2]), channel(prime[3])>>

\* the Hsv arm of grayscale: the three samples rescaled as if 16-bit
HsvToGray(hsv) ==
    LET scaled(c) == FMul(FDiv(c, FromInt(65535)), FromInt(255))
    IN  <<AsU8(FRound(FAdd(FAdd(FMul(F32(299, 1000), scaled(hsv[1])),
                                FMul(F32(587, 1000), scaled(hsv[2]))),
                           FMul(F32(114, 1000), scaled(hsv[3])))))>>

---------------------------------------------------------------------------
(* Image conversions (src/imgproc/color.rs).                               *)

\* the first two channels of a pixel followed by its last one
Rgb3ReadsAlpha(px_vec) == <<px_vec[1], px_vec[2], px_vec[Len(px_vec)]>>

\* the first three channels of a pixel
Rgb3(px_vec) == <<px_vec[1], px_vec[2], px_vec[3]>>

\* the three downcast channels of a 16-bit pixel
Downcast3(px_vec) ==
    <<Downcast8bit(px_vec[1]), Downcast8bit(px_vec[2]), Downcast8bit(px_vec[3])>>

\* grayscale keeping the alpha sample of a GrayscaleAlpha pixel
GrayPixelKeepsAlpha(fmt, px_vec) ==
    CASE fmt \in {"grayscale", "grayscale_alpha"} -> px_vec
      [] fmt \in {"grayscale16", "grayscale_alpha16"} -> <<Gray16To8(px_vec[1])>>
      [] fmt = "rgb" -> RgbToGray(px_vec)
      [] fmt = "rgba" -> RgbToGray(Rgb3(px_vec))
      [] fmt \in {"rgb16", "rgba16"} -> RgbToGray(Downcast3(px_vec))
      [] fmt = "hsv" -> HsvToGray(px_vec)

\* grayscale rescaling an 8-bit Grayscale sample as if it were 16-bit
GrayPixelRescalesGray(fmt, px_vec) ==
    CASE fmt \in {"grayscale", "grayscale16", "grayscale_alpha16"} ->
            <<Gray16To8(px_vec[1])>>
      [] fmt = "grayscale_alpha" -> <<px_vec[1]>>
      [] fmt = "rgb" -> RgbToGray(px_vec)
      [] fmt = "rgba" -> RgbToGray(Rgb3(px_vec))
      [] fmt \in {"rgb16", "rgba16"} -> RgbToGray(Downcast3(px_vec))
      [] fmt = "hsv" -> HsvToGray(px_vec)

\* the closure each arm of grayscale maps over the pixels
GrayPixel(fmt, px_vec) ==
    CASE fmt = "grayscale" -> px_vec
      [] fmt = "grayscale_alpha" -> <<px_vec[1]>>
      [] fmt \in {"grayscale16", "grayscale_alpha16"} -> <<Gray16To8(px_vec[1])>>
      [] fmt = "rgb" -> RgbToGray(px_vec)
      [] fmt = "rgba" -> RgbToGray(Rgb3(px_vec))
      [] fmt \in {"rgb16", "rgba16"} -> RgbToGray(Downcast3(px_vec))
      [] fmt = "hsv" -> HsvToGray(px_vec)

\* Image::grayscale(&self) -> Self
Grayscale(im) ==
    LET gray == [px_vec \in Elements(im.pixels) |-> GrayPixel(im.fmt, px_vec)]
    IN  Outcome("ok",
                ImageDataNew("grayscale", im.width, im.height,
                             MapArray(im.pixels, gray)),
                <<>>)

\* rgb downcasting the channels of an 8-bit Rgb pixel as if 16-bit
RgbPixelDowncastsRgb(fmt, px_vec) ==
    CASE fmt = "rgba" -> Rgb3(px_vec)
      [] fmt \in {"rgb", "rgb16", "rgba16"} -> Downcast3(px_vec)
      [] fmt = "hsv" -> HsvToRgb(px_vec)

\* the closure each Ok arm of rgb maps over the pixels
RgbPixel(fmt, px_vec) ==
    CASE fmt = "rgb" -> px_vec
      [] fmt = "rgba" -> Rgb3(px_vec)
      [] fmt \in {"rgb16", "rgba16"} -> Downcast3(px_vec)
      [] fmt = "hsv" -> HsvToRgb(px_vec)

\* rgb taking an Hsv source for an invalid one
RgbRejectsHsv(im) ==
    LET to_rgb == [px_vec \in Elements(im.pixels) |-> RgbPixel(im.fmt, px_vec)]
    IN  IF im.fmt \in {"rgb", "rgba", "rgb16", "rgba16"}
        THEN Outcome("ok",
                     ImageDataNew("rgb", im.width, im.height,
                                  MapArray(im.pixels, to_rgb)),
                     <<>>)
        ELSE Outcome("err", <<>>, ErrorKind("InvalidColorType", <<im.fmt, "RGB">>))

\* Image::rgb(&self) -> VisionXResult<Self>; the error message is
\* formatted from to_str() of the source and the target colourspace
Rgb(im) ==
    LET to_rgb == [px_vec \in Elements(im.pixels) |-> RgbPixel(im.fmt, px_vec)]
    IN  IF im.fmt \in {"rgb", "rgba", "rgb16", "rgba16", "hsv"}
        THEN Outcome("ok",
                     ImageDataNew("rgb", im.width, im.height,
                                  MapArray(im.pixels, to_rgb)),
                     <<>>)
        ELSE Outcome("err", <<>>, ErrorKind("InvalidColorType", <<im.fmt, "RGB">>))

\* the closure each Ok arm of hsv maps over the pixels
HsvPixel(fmt, px_vec) ==
    CASE fmt = "rgb" -> RgbToHsv(px_vec)
      [] fmt = "rgba" -> RgbToHsv(Rgb3(px_vec))
      [] fmt \in {"rgb16", "rgba16"} -> RgbToHsv(Downcast3(px_vec))
      [] fmt = "hsv" -> px_vec

\* hsv taking an Rgba source for an invalid one
HsvRejectsRgba(im) ==
    LET to_hsv == [px_vec \in Elements(im.pixels) |-> HsvPixel(im.fmt, px_vec)]
    IN  IF im.fmt \in {"rgb", "rgb16", "rgba16", "hsv"}
        THEN Outcome("ok",
                     ImageDataNew("hsv", im.width, im.height,
                                  MapArray(im.pixels, to_hsv)),
                     <<>>)
        ELSE Outcome("err", <<>>, ErrorKind("InvalidColorType", <<im.fmt, "HSV">>))

\* Image::hsv(&self) -> VisionXResult<Self>
Hsv(im) ==
    LET to_hsv == [px_vec \in Elements(im.pixels) |-> HsvPixel(im.fmt, px_vec)]
    IN  IF im.fmt \in {"rgb", "rgba", "rgb16", "rgba16", "hsv"}
        THEN Outcome("ok",
                     ImageDataNew("hsv", im.width, im.height,
                                  MapArray(im.pixels, to_hsv)),
                     <<>>)
        ELSE Outcome("err", <<>>, ErrorKind("InvalidColorType", <<im.fmt, "HSV">>))

---------------------------------------------------------------------------
(* Writing an image to a file (src/io.rs).                                 *)

\* from_vec asking only for the samples of one row
FromVecFitsOneRow(width, height, n, len) ==
    width = 0 \/ height = 0 \/ (width <= len /\ n * width <= len)

\* ImageBuffer::from_vec(width, height, buf).is_some(): the container
\* holds at least width * height * n samples (len = buf.len())
FromVecFits(width, height, n, len) ==
    width = 0 \/ height = 0
        \/ (width <= len /\ height <= len /\ n * width * height <= len)

\* what write has done when it returns: whether the ImageBuffer was built
\* from the flattened samples and whether the encoder saved the file
Written(built, saved) == [built |-> built, saved |-> saved]

\* write treating the Hsv variant like the three-channel variants
WriteEncodesHsv(im, save_ok) ==
    LET pixels_vec == FlattenPixels(im)
    IN  IF FromVecFits(im.width, im.height, Channels(im.fmt), Len(pixels_vec))
        THEN IF save_ok
             THEN Outcome("ok", Written(TRUE, TRUE), <<>>)
             ELSE Outcome("err", Written(TRUE, FALSE),
                          ErrorKind("ImageError", <<>>))
        ELSE Outcome("err", Written(FALSE, FALSE),
                     ErrorKind("InsufficientBufferSize", <<>>))

\* io::write(path, img) -> VisionXResult<()>; save_ok tells whether
\* buffer.save(path), the encoder and the file system, succeeds
Write(im, save_ok) ==
    IF im.fmt = "hsv"
    THEN Outcome("err", Written(FALSE, FALSE),
                 ErrorKind("InvalidColorType", <<im.fmt>>))
    ELSE LET pixels_vec == FlattenPixels(im)
         IN  IF FromVecFits(im.width, im.height, Channels(im.fmt),
                            Len(pixels_vec))
             THEN IF save_ok
                  THEN Outcome("ok", Written(TRUE, TRUE), <<>>)
                  ELSE Outcome("err", Written(TRUE, FALSE),
                               ErrorKind("ImageError", <<>>))
             ELSE Outcome("err", Written(FALSE, FALSE),
                          ErrorKind("InsufficientBufferSize", <<>>))

---------------------------------------------------------------------------
(* The inputs of the ImageData state machine.                              *)

\* the instantiations of ImageData<T, N> the state machine is run on
DataFormats == {"grayscale_alpha", "rgb16"}

\* the pixel values written into grids
Palette(fmt) ==
    CASE fmt = "grayscale_alpha" -> {<<0, 0>>, <<200, 77>>}
      [] fmt = "rgb16" -> {<<0, 0, 0>>, <<65535, 32768, 257>>}

\* the shapes of the grids: small ones, and empty ones with one huge axis
Shapes ==
    {rc \in (0 .. MaxDim) \X (0 .. MaxDim) : rc[1] * rc[2] <= MaxCells}
        \cup {<<0, WideDim>>, <<WideDim, 0>>}

Orders(nrows, ncols) == {Layout(nrows, ncols, o) : o \in {"C", "F"}}

\* every ndarray of a shape over a set of pixels
ArraysOf(nrows, ncols, pixels) ==
    {[nrows |-> nrows, ncols |-> ncols, order |-> o, data |-> d] :
        o \in Orders(nrows, ncols), d \in [Cells(nrows, ncols) -> pixels]}

Grids(fmt) == UNION {ArraysOf(rc[1], rc[2], Palette(fmt)) : rc \in Shapes}

\* res: the last call (op, args), the image it was made on and its outcome
Call(op, args, src, out) == [op |-> op, args |-> args, src |-> src, out |-> out]

---------------------------------------------------------------------------
(* The ImageData state machine: construction (Init), the setters, the      *)
(* pixel accessors, flatten_pixels, resize and crop.  A call is made when  *)
(* the caller holds no pending outcome; the caller then takes the outcome. *)

Idle == Call("none", <<>>, <<>>, Outcome("none", <<>>, <<>>))

Init ==
    /\ \E fmt \in DataFormats, width \in DeclDims, height \in DeclDims :
         \E pixels \in Grids(fmt) :
            img = ImageDataNew(fmt, width, height, pixels)
    /\ res = Idle
    /\ origin = [op |-> "new", from |-> img.fmt]

SetHeight ==
    /\ res = Idle
    /\ \E height \in DeclDims :
        /\ img' = SetHeightOf(img, height)
        /\ res' = Call("set_height", <<height>>, img, Outcome("ok", img', <<>>))
    /\ UNCHANGED origin

SetWidth ==
    /\ res = Idle
    /\ \E width \in DeclDims :
        /\ img' = SetWidthOf(img, width)
        /\ res' = Call("set_width", <<width>>, img, Outcome("ok", img', <<>>))
    /\ UNCHANGED origin

SetPixels ==
    /\ res = Idle
    /\ \E pixels \in Grids(img.fmt) :
        /\ img' = SetPixelsOf(img, pixels)
        /\ res' = Call("set_pixels", <<pixels>>, img, Outcome("ok", img', <<>>))
    /\ UNCHANGED origin

GetPixel ==
    /\ res = Idle
    /\ \E x \in Coords, y \in Coords :
        res' = Call("get_pixel_at", <<x, y>>, img, GetPixelAt(img, x, y))
    /\ UNCHANGED <<img, origin>>

SetPixel ==
    /\ res = Idle
    /\ \E x \in Coords, y \in Coords, value \in Palette(img.fmt) :
        LET out == SetPixelAt(img, x, y, value)
        IN  /\ res' = Call("set_pixel_at", <<x, y, value>>, img, out)
            /\ img' = IF out.status = "panic" THEN img ELSE out.value
    /\ UNCHANGED origin

Flatten ==
    /\ res = Idle
    /\ res' = Call("flatten_pixels", <<>>, img,
                   Outcome("ok", FlattenPixels(img), <<>>))
    /\ UNCHANGED <<img, origin>>

DoResize ==
    /\ res = Idle
    /\ \E width \in ResizeDims, height \in ResizeDims, overflow_checks \in BOOLEAN :
        res' = Call("resize", <<width, height>>, img,
                    Resize(img, width, height, overflow_checks))
    /\ UNCHANGED <<img, origin>>

DoCrop ==
    /\ res = Idle
    /\ \E point1 \in Coords \X Coords, point2 \in Coords \X Coords :
        \E order \in OwnedOrders(img.pixels, point1[2], point2[2],
                                 point1[1], point2[1]) :
            res' = Call("crop", <<point1, point2>>, img,
                        Crop(img, point1, point2, order))
    /\ UNCHANGED <<img, origin>>

\* the caller drops the outcome of the last call
Drop ==
    /\ res # Idle
    /\ res' = Idle
    /\ UNCHANGED <<img, origin>>

Next ==
    \/ SetHeight
    \/ SetWidth
    \/ SetPixels
    \/ GetPixel
    \/ SetPixel
    \/ Flatten
    \/ DoResize
    \/ DoCrop
    \/ Drop

Spec == Init /\ [][Next]_vars

---------------------------------------------------------------------------
(* The Image state machine: an Image of any of the nine variants is        *)
(* converted by grayscale, rgb and hsv; the caller drops the result or     *)
(* keeps it as its image and converts it again.                            *)

\* the pixel values of the images that are converted
ColorPalette(fmt) ==
    CASE fmt = "grayscale" -> {<<0>>, <<129>>, <<255>>}
      [] fmt = "grayscale_alpha" -> {<<0, 255>>, <<129, 0>>, <<129, 255>>}
      [] fmt = "rgb" -> {<<0, 0, 0>>, <<10, 20, 200>>, <<255, 128, 0>>}
      [] fmt = "rgba" -> {<<0, 0, 0, 0>>, <<10, 20, 200, 255>>, <<10, 20, 200, 7>>}
      [] fmt = "grayscale16" -> {<<0>>, <<32768>>, <<65535>>}
      [] fmt = "grayscale_alpha16" ->
            {<<0, 65535>>, <<32768, 0>>, <<65535, 65535>>}
      [] fmt = "rgb16" ->
            {<<0, 0, 0>>, <<65535, 32768, 257>>, <<65535, 65535, 65535>>}
      [] fmt = "rgba16" ->
            {<<0, 0, 0, 0>>, <<65535, 32768, 257, 65535>>,
             <<65535, 65535, 65535, 1>>}
      [] fmt = "hsv" ->
            {<<FromInt(0), FromInt(0), FromInt(0)>>,
             <<FromInt(200), F32(1, 2), F32(3, 4)>>,
             <<NaN, FromInt(0), F32(128, 255)>>,
             <<FromInt(200000), FromInt(400), FromInt(-1)>>}

ColorShapes == {rc \in Shapes : rc[1] * rc[2] <= MaxColorCells}

ColorGrids(fmt) ==
    UNION {ArraysOf(rc[1], rc[2], ColorPalette(fmt)) : rc \in ColorShapes}

\* how img was obtained: by which call, from an image of which variant
Origin(op, from) == [op |-> op, from |-> from]

ColorInit ==
    /\ \E fmt \in Formats, width \in DeclDims, height \in DeclDims :
         \E pixels \in ColorGrids(fmt) :
            img = ImageDataNew(fmt, width, height, pixels)
    /\ res = Idle
    /\ origin = Origin("new", img.fmt)

DoGrayscale ==
    /\ res = Idle
    /\ res' = Call("grayscale", <<>>, img, Grayscale(img))
    /\ UNCHANGED <<img, origin>>

DoRgb ==
    /\ res = Idle
    /\ res' = Call("rgb", <<>>, img, Rgb(img))
    /\ UNCHANGED <<img, origin>>

DoHsv ==
    /\ res = Idle
    /\ res' = Call("hsv", <<>>, img, Hsv(img))
    /\ UNCHANGED <<img, origin>>

\* the caller keeps the image a conversion returned
Adopt ==
    /\ res.op \in {"grayscale", "rgb", "hsv"}
    /\ res.out.status = "ok"
    /\ img' = res.out.value
    /\ origin' = Origin(res.op, res.src.fmt)
    /\ res' = Idle

ColorNext ==
    \/ DoGrayscale
    \/ DoRgb
    \/ DoHsv
    \/ Adopt
    \/ Drop

ColorSpec == ColorInit /\ [][ColorNext]_vars

---------------------------------------------------------------------------
(* The pixel conversions on their own: an Image of one pixel, drawn from   *)
(* a wide range of samples, is converted by grayscale, rgb and hsv, and    *)
(* the Hsv image hsv returned is converted back by rgb.                    *)

\* 8-bit samples: the lowest ones, the middle, the top, and 188, for
\* which 0.299 * 188 + 0.587 * 2 + 0.114 * 1 is 57.5
Samples8 == (0 .. MaxSample) \cup {128, 188, 255}
\* 16-bit samples: both ends, their neighbours and the middle
Samples16 == {0, 257, 32768, 65534, 65535}
\* alpha samples
Alphas8 == {0, 255}
Alphas16 == {0, 65535}
\* hues in degrees (inside and outside [0, 360)), saturations and values
Hues == {-60, 0, 30, 60, 90, 120, 180, 200, 240, 300, 330, 360, 400}
Units == {F32(0, 1), F32(1, 2), F32(1, 1)}

PixelPalette(fmt) ==
    CASE fmt = "grayscale" -> {<<l>> : l \in Samples8}
      [] fmt = "grayscale_alpha" -> Samples8 \X Alphas8
      [] fmt = "rgb" -> Samples8 \X Samples8 \X Samples8
      [] fmt = "rgba" -> Samples8 \X Samples8 \X Samples8 \X Alphas8
      [] fmt = "grayscale16" -> {<<l>> : l \in Samples16}
      [] fmt = "grayscale_alpha16" -> Samples16 \X Alphas16
      [] fmt = "rgb16" -> Samples16 \X Samples16 \X Samples16
      [] fmt = "rgba16" -> Samples16 \X Samples16 \X Samples16 \X Alphas16
      [] fmt = "hsv" -> {FromInt(h) : h \in Hues} \X Units \X Units

\* an Image of one row and one column
OnePixel(fmt, px_vec) == ImageDataNew(fmt, 1, 1, FromElem(1, 1, px_vec))

\* the pixel of such an image
PixelOf(im) == im.pixels.data[<<0, 0>>]

PixelInit ==
    /\ \E fmt \in Formats : \E px_vec \in PixelPalette(fmt) :
           img = OnePixel(fmt, px_vec)
    /\ res = Idle
    /\ origin = Origin("new", img.fmt)

\* x.hsv()?.rgb(): rgb is called on the image hsv has just returned; the
\* outcome keeps, as args, the image x the chain started from
HsvThenRgb ==
    /\ res.op = "hsv" /\ res.args = <<>>
    /\ res.out.status = "ok"
    /\ res' = Call("rgb", <<res.src>>, res.out.value, Rgb(res.out.value))
    /\ UNCHANGED <<img, origin>>

PixelNext ==
    \/ DoGrayscale
    \/ DoRgb
    \/ DoHsv
    \/ HsvThenRgb
    \/ Drop

PixelSpec == PixelInit /\ [][PixelNext]_vars

---------------------------------------------------------------------------
(* Writing images: an Image of any of the nine variants, with any declared *)
(* dimensions, is handed to io::write; the encoder succeeds or fails.      *)

DoWrite ==
    /\ res = Idle
    /\ \E save_ok \in BOOLEAN :
        res' = Call("write", <<>>, img, Write(img, save_ok))
    /\ UNCHANGED <<img, origin>>

IoNext ==
    \/ DoWrite
    \/ Drop

IoSpec == ColorInit /\ [][IoNext]_vars

---------------------------------------------------------------------------
(* A source image and a result derived from it, both held by the caller:   *)
(* an image built with matching dimensions is transformed, the caller      *)
(* keeps the result next to the source (img is then the result and         *)
(* origin.from the source it came from) and calls a setter on either one.  *)

Transforms == {"grayscale", "rgb", "hsv", "resize", "crop"}
SetterOps == {"set_pixel_at", "set_pixels", "set_width", "set_height"}

\* a pixel of full samples, written by the setter calls
Marker(fmt) ==
    [c \in 1 .. Channels(fmt) |-> IF fmt = "hsv" THEN F32(1, 1) ELSE 255]

\* the setter calls made on an image im
Setters(im) ==
    {[op |-> "set_pixel_at", args |-> <<x, y, Marker(im.fmt)>>] :
        x \in Coords, y \in Coords}
    \cup {[op |-> "set_pixels", args |-> <<FromElem(1, 1, Marker(im.fmt))>>]}
    \cup {[op |-> "set_width", args |-> <<width>>] : width \in DeclDims}
    \cup {[op |-> "set_height", args |-> <<height>>] : height \in DeclDims}

\* the outcome of a setter call on im; its value is im after the call
SetterCall(im, call) ==
    CASE call.op = "set_pixel_at" ->
            SetPixelAt(im, call.args[1], call.args[2], call.args[3])
      [] call.op = "set_pixels" ->
            Outcome("ok", SetPixelsOf(im, call.args[1]), <<>>)
      [] call.op = "set_width" ->
            Outcome("ok", SetWidthOf(im, call.args[1]), <<>>)
      [] call.op = "set_height" ->
            Outcome("ok", SetHeightOf(im, call.args[1]), <<>>)

\* the image a binding holds after a call with outcome out was made on it
After(im, out) == IF out.status = "panic" THEN im ELSE out.value

OwnInit == Init /\ Consistent(img)

\* let result = source.transform(..)?: the caller binds the returned image
\* and goes on holding the source
Keep ==
    /\ res.op \in Transforms /\ res.out.status = "ok"
    /\ origin.op = "new"
    /\ img' = res.out.value
    /\ origin' = Origin(res.op, img)
    /\ res' = Idle

\* a setter is called on the result
SetOnResult ==
    /\ origin.op \in Transforms /\ res = Idle
    /\ \E call \in Setters(img) :
        LET out == SetterCall(img, call)
        IN  /\ img' = After(img, out)
            /\ res' = Call(call.op, <<"result">> \o call.args, img, out)
    /\ UNCHANGED origin

\* a setter called on the source that writes through to the result, as
\* it would if the two shared one grid
SetOnSharedGrid ==
    /\ origin.op \in Transforms /\ res = Idle
    /\ \E call \in Setters(origin.from) :
        LET out == SetterCall(origin.from, call)
        IN  /\ origin' = [origin EXCEPT !.from = After(origin.from, out)]
            /\ img' = After(img, SetterCall(img, call))
            /\ res' = Call(call.op, <<"source">> \o call.args, origin.from, out)

\* a setter is called on the source
SetOnSource ==
    /\ origin.op \in Transforms /\ res = Idle
    /\ \E call \in Setters(origin.from) :
        LET out == SetterCall(origin.from, call)
        IN  /\ origin' = [origin EXCEPT !.from = After(origin.from, out)]
            /\ res' = Call(call.op, <<"source">> \o call.args, origin.from, out)
    /\ UNCHANGED img

OwnNext ==
    \/ (origin.op = "new" /\ DoResize)
    \/ (origin.op = "new" /\ DoCrop)
    \/ (origin.op = "new" /\ DoGrayscale)
    \/ (origin.op = "new" /\ DoRgb)
    \/ (origin.op = "new" /\ DoHsv)
    \/ Keep
    \/ SetOnResult
    \/ SetOnSource

OwnSpec == OwnInit /\ [][OwnNext]_vars

---------------------------------------------------------------------------
(* Images derived from a well-formed one: an image built with matching     *)
(* dimensions has pixels written and is resized, cropped and converted;    *)
(* the caller goes on with a result in place of the image it came from.    *)

\* set_pixel_at on an image of any variant
WritePixel ==
    /\ res = Idle
    /\ \E x \in Coords, y \in Coords :
        LET out == SetPixelAt(img, x, y, Marker(img.fmt))
        IN  /\ res' = Call("set_pixel_at", <<x, y, Marker(img.fmt)>>, img, out)
            /\ img' = After(img, out)
    /\ UNCHANGED origin

\* the caller goes on with the image a transform returned, when it is no
\* larger than the grids images are built from
Derive ==
    /\ res.op \in Transforms /\ res.out.status = "ok"
    /\ origin.op = "new"
    /\ res.out.value.pixels.nrows <= MaxDim
    /\ res.out.value.pixels.ncols <= MaxDim
    /\ res.out.value.pixels.nrows * res.out.value.pixels.ncols <= MaxCells
    /\ img' = res.out.value
    /\ origin' = Origin(res.op, res.src.fmt)
    /\ res' = Idle

DimNext ==
    \/ WritePixel
    \/ DoResize
    \/ DoCrop
    \/ DoGrayscale
    \/ DoRgb
    \/ DoHsv
    \/ Derive
    \/ Drop

DimSpec == OwnInit /\ [][DimNext]_vars

---------------------------------------------------------------------------
(* Pixels written and read back: an image built with matching dimensions   *)
(* has pixels written by set_pixel_at and read by get_pixel_at; origin     *)
(* keeps, for every coordinate (x, y), the pixel the image was built with  *)
(* or the value of the last set_pixel_at that returned Ok for it.          *)

\* the pixels an image was built with, by coordinate (x, y)
BuiltWith(im) ==
    [xy \in (0 .. (im.width - 1)) \X (0 .. (im.height - 1)) |->
        im.pixels.data[<<xy[2], xy[1]>>]]

LogInit ==
    /\ \E fmt \in DataFormats, width \in 0 .. MaxDim, height \in 0 .. MaxDim :
         \E pixels \in Grids(fmt) :
            /\ pixels.nrows = height /\ pixels.ncols = width
            /\ img = ImageDataNew(fmt, width, height, pixels)
    /\ res = Idle
    /\ origin = Origin("new", BuiltWith(img))

LoggedSetPixel ==
    /\ res = Idle
    /\ \E x \in Coords, y \in Coords, value \in Palette(img.fmt) :
        LET out == SetPixelAt(img, x, y, value)
        IN  /\ res' = Call("set_pixel_at", <<x, y, value>>, img, out)
            /\ img' = After(img, out)
            /\ origin' = IF out.status = "ok"
                         THEN Origin("set_pixel_at",
                                     [origin.from EXCEPT ![<<x, y>>] = value])
                         ELSE origin

LogNext ==
    \/ LoggedSetPixel
    \/ GetPixel
    \/ Drop

LogSpec == LogInit /\ [][LogNext]_vars

---------------------------------------------------------------------------
(* Resizing to a huge width: an image of one row and MaxDim + 1 columns,   *)
(* built with matching dimensions, is resized to small dimensions and to   *)
(* a width of WideDim.                                                     *)

WideInit ==
    /\ \E fmt \in DataFormats :
         \E pixels \in ArraysOf(1, MaxDim + 1, Palette(fmt)) :
            img = ImageDataNew(fmt, MaxDim + 1, 1, pixels)
    /\ res = Idle
    /\ origin = Origin("new", img.fmt)

\* resize(WideDim, 1) in a build with overflow checks (the grid of WideDim
\* pixels that a build without them returns is not built here)
ResizeWide ==
    /\ res = Idle
    /\ res' = Call("resize", <<WideDim, 1>>, img, Resize(img, WideDim, 1, TRUE))
    /\ UNCHANGED <<img, origin>>

WideNext ==
    \/ ResizeWide
    \/ DoResize
    \/ Drop

WideSpec == WideInit /\ [][WideNext]_vars

---------------------------------------------------------------------------
(* Properties of ImageData (checked under Spec).                           *)

\* the exact floor(x * w / d) for x < d, by limbs
FloorMulDiv(x, w, d) ==
    LET p == WideMul(x, w)
    IN  DivLimbs(p.hi, p.lo, d)

\* C1: on an ImageData whose declared width and height match its grid,
\* get_pixel_at(x, y) returns Some(the pixel at row y, column x) exactly
\* when x < width and y < height, and None (no panic) otherwise.
C1_GetPixelAt ==
    (res.op = "get_pixel_at" /\ Consistent(res.src)) =>
        LET x == res.args[1]
            y == res.args[2]
        IN  IF x < res.src.width /\ y < res.src.height
            THEN /\ res.out.status = "some"
                 /\ res.out.value = res.src.pixels.data[<<y, x>>]
            ELSE res.out.status = "none"

\* get_pixel_at returned the pixel of row 0, column 1, which differs from
\* the pixel of row 1, column 0
C1_Witness ==
    /\ res.op = "get_pixel_at" /\ Consistent(res.src)
    /\ res.args = <<1, 0>>
    /\ res.src.width = 2 /\ res.src.height = 2
    /\ res.out.status = "some"
    /\ res.out.value # res.src.pixels.data[<<1, 0>>]

\* C2: set_pixel_at(x, y, v) with x >= width or y >= height returns an
\* IndexOutofBound error whose message carries (x, y) and the declared
\* (width, height), and leaves width, height and every pixel unchanged.
C2_SetPixelAtOutOfBounds ==
    (/\ res.op = "set_pixel_at"
     /\ (res.args[1] >= res.src.width \/ res.args[2] >= res.src.height)) =>
        /\ res.out.status = "err"
        /\ res.out.err.kind = "IndexOutofBound"
        /\ res.out.err.msg =
              <<res.args[1], res.args[2], res.src.width, res.src.height>>
        /\ img = res.src

\* set_pixel_at was refused for its row alone, on a grid that has the
\* column, with a value the grid does not hold there
C2_Witness ==
    /\ res.op = "set_pixel_at"
    /\ res.args[1] < res.src.width /\ res.args[2] >= res.src.height
    /\ res.src.pixels.nrows > 0 /\ res.args[1] < res.src.pixels.ncols
    /\ res.out.status = "err"

\* C3 as stated, for every ImageData: crop((x0, y0), (x1, y1)) returns Ok
\* if and only if x0 < x1, y0 < y1, x1 <= width and y1 <= height, and an
\* IndexOutofBound error (never a grid) in every other case.
C3_CropOkIffAnyImage ==
    res.op = "crop" =>
        LET point1 == res.args[1]
            point2 == res.args[2]
            cond == /\ point1[1] < point2[1] /\ point1[2] < point2[2]
                    /\ point2[1] <= res.src.width
                    /\ point2[2] <= res.src.height
        IN  /\ res.out.status = "ok" <=> cond
            /\ ~cond => /\ res.out.status = "err"
                        /\ res.out.err.kind = "IndexOutofBound"
                        /\ res.out.value = <<>>

\* C3, amended: crop((x0, y0), (x1, y1)) returns Ok only if x0 < x1,
\* y0 < y1, x1 <= width and y1 <= height, returns an IndexOutofBound
\* error (and no grid) in every other case, and returns Ok whenever the
\* condition holds on an ImageData whose declared dimensions match its
\* grid.
C3_CropOkIff ==
    res.op = "crop" =>
        LET point1 == res.args[1]
            point2 == res.args[2]
            cond == /\ point1[1] < point2[1] /\ point1[2] < point2[2]
                    /\ point2[1] <= res.src.width
                    /\ point2[2] <= res.src.height
        IN  /\ res.out.status = "ok" => cond
            /\ ~cond => /\ res.out.status = "err"
                        /\ res.out.err.kind = "IndexOutofBound"
                        /\ res.out.value = <<>>
            /\ (cond /\ Consistent(res.src)) => res.out.status = "ok"

\* crop refused x0 = x1 although the rectangle lies inside the grid
C3_Witness ==
    /\ res.op = "crop" /\ Consistent(res.src)
    /\ res.args[1][1] = res.args[2][1]
    /\ res.args[1][2] < res.args[2][2]
    /\ res.args[2][1] <= res.src.width /\ res.args[2][2] <= res.src.height
    /\ res.out.status = "err"

\* C4: a successful crop of a consistent grid has width x1 - x0 and height
\* y1 - y0, and result.get_pixel_at(i, j) = source.get_pixel_at(x0 + i,
\* y0 + j) for all i < x1 - x0 and j < y1 - y0.
C4_CropSizeLaw ==
    (res.op = "crop" /\ Consistent(res.src) /\ res.out.status = "ok") =>
        LET x0 == res.args[1][1]
            y0 == res.args[1][2]
            x1 == res.args[2][1]
            y1 == res.args[2][2]
        IN  /\ res.out.value.width = x1 - x0
            /\ res.out.value.height = y1 - y0
            /\ \A i \in 0 .. (x1 - x0 - 1), j \in 0 .. (y1 - y0 - 1) :
                  /\ GetPixelAt(res.out.value, i, j).status = "some"
                  /\ GetPixelAt(res.out.value, i, j) =
                        GetPixelAt(res.src, x0 + i, y0 + j)

\* a crop away from the origin returned a pixel that differs from the
\* pixel at the origin of the source
C4_Witness ==
    /\ res.op = "crop" /\ Consistent(res.src) /\ res.out.status = "ok"
    /\ res.args[1] = <<1, 1>>
    /\ res.out.value.pixels.data[<<0, 0>>] # res.src.pixels.data[<<0, 0>>]

\* C5: for W > 0 and H > 0 and any source, resize(W, H) returns an
\* ImageData with width W, height H and a grid of H rows and W columns
\* (stated for sources whose declared dimensions match their grid).
C5_ResizeDimensionLaw ==
    (/\ res.op = "resize" /\ Consistent(res.src)
     /\ res.args[1] > 0 /\ res.args[2] > 0) =>
        /\ res.out.status = "ok"
        /\ res.out.value.width = res.args[1]
        /\ res.out.value.height = res.args[2]
        /\ res.out.value.pixels.nrows = res.args[2]
        /\ res.out.value.pixels.ncols = res.args[1]

\* C6: for every destination (x, y) with x < W and y < H,
\* resize(W, H).get_pixel_at(x, y) is the source pixel at
\* (floor(x * src_width / W), floor(y * src_height / H)) when that
\* coordinate is in bounds, and the all-default pixel otherwise
\* (stated for sources whose declared dimensions match their grid).
C6_ResizeNearestNeighbour ==
    (res.op = "resize" /\ Consistent(res.src)) =>
        /\ res.out.status = "ok"
        /\ \A x \in 0 .. (res.args[1] - 1), y \in 0 .. (res.args[2] - 1) :
              LET old_x == FloorMulDiv(x, res.src.width, res.args[1])
                  old_y == FloorMulDiv(y, res.src.height, res.args[2])
              IN  /\ GetPixelAt(res.out.value, x, y).status = "some"
                  /\ GetPixelAt(res.out.value, x, y).value =
                        IF old_x < res.src.width /\ old_y < res.src.height
                        THEN res.src.pixels.data[<<old_y, old_x>>]
                        ELSE DefaultPixel(res.src.fmt)

\* C7: flatten_pixels returns height * width * N samples, the sample at
\* index (y * width + x) * N + c being channel c of the pixel at row y,
\* column x, for every grid held by the ImageData (stated for declared
\* dimensions that match the grid).
C7_FlattenRowMajor ==
    (res.op = "flatten_pixels" /\ Consistent(res.src)) =>
        LET n == Channels(res.src.fmt)
            width == res.src.width
            height == res.src.height
        IN  /\ Len(res.out.value) = height * width * n
            /\ \A rc \in DOMAIN res.src.pixels.data, c \in 0 .. (n - 1) :
                  res.out.value[(rc[1] * width + rc[2]) * n + c + 1] =
                      res.src.pixels.data[rc][c + 1]

---------------------------------------------------------------------------
(* Properties of the conversions (checked under ColorSpec).                *)

\* two images of one variant with equal width, height and pixels
SameImage(a, b) ==
    /\ a.fmt = b.fmt /\ a.width = b.width /\ a.height = b.height
    /\ a.pixels.nrows = b.pixels.nrows /\ a.pixels.ncols = b.pixels.ncols
    /\ a.pixels.data = b.pixels.data

\* C8: grayscale() is total: for each of the nine variants it returns
\* (never an error) an ImageGrayscale of the width and height of the
\* source whose grid has one 8-bit sample per source pixel.
C8_GrayscaleTotal ==
    res.op = "grayscale" =>
        /\ res.out.status = "ok"
        /\ res.out.value.fmt = "grayscale"
        /\ res.out.value.width = res.src.width
        /\ res.out.value.height = res.src.height
        /\ res.out.value.pixels.nrows = res.src.pixels.nrows
        /\ res.out.value.pixels.ncols = res.src.pixels.ncols
        /\ DOMAIN res.out.value.pixels.data = DOMAIN res.src.pixels.data
        /\ \A rc \in DOMAIN res.out.value.pixels.data :
              /\ Len(res.out.value.pixels.data[rc]) = 1
              /\ res.out.value.pixels.data[rc][1] \in 0 .. 255

\* grayscale converted a GrayscaleAlpha image of at least two pixels
C8_Witness ==
    /\ res.op = "grayscale" /\ res.out.status = "ok"
    /\ res.src.fmt = "grayscale_alpha"
    /\ Cardinality(DOMAIN res.src.pixels.data) >= 2

\* C9: x.grayscale().grayscale() equals x.grayscale(): the grayscale of
\* an image that grayscale returned has its width, height and pixels.
C9_GrayscaleIdempotent ==
    (res.op = "grayscale" /\ origin.op = "grayscale") =>
        /\ res.out.status = "ok"
        /\ SameImage(res.out.value, res.src)

\* the grayscale of an Rgb image that has a sample between 1 and 254 was
\* converted to grayscale again
C9_Witness ==
    /\ res.op = "grayscale" /\ origin = Origin("grayscale", "rgb")
    /\ res.out.status = "ok"
    /\ \E rc \in DOMAIN res.src.pixels.data :
          res.src.pixels.data[rc][1] \in 1 .. 254

---------------------------------------------------------------------------
(* Properties of the pixel conversions (checked under PixelSpec).  The     *)
(* stated values are computed in integers and exact rationals.             *)

\* round(sample / 65535 * 255), halves up
RoundedRescale(sample) == (2 * 255 * sample + 65535) \div (2 * 65535)

\* round(0.299 * R + 0.587 * G + 0.114 * B), halves up
RoundedLuma(rgb) ==
    (2 * (299 * rgb[1] + 587 * rgb[2] + 114 * rgb[3]) + 1000) \div 2000

Max3(v) == CHOOSE m \in {v[1], v[2], v[3]} : \A c \in 1 .. 3 : v[c] <= m
Min3(v) == CHOOSE m \in {v[1], v[2], v[3]} : \A c \in 1 .. 3 : m <= v[c]

\* floor of a finite rational, and a mod b with a result in [0, b)
FFloor(a) == IF a.n >= 0 THEN a.n \div a.d ELSE -((-a.n + a.d - 1) \div a.d)
FMod(a, b) == FSub(a, FMul(FromInt(FFloor(FDiv(a, b))), b))

\* C13: the 16-bit to 8-bit downcast helper computes
\* round(sample / 65535 * 255) for every 16-bit sample (65535 gives 255,
\* 0 gives 0, 32768 gives 128); stated on the channels rgb() returns for
\* an Rgb16 or Rgba16 pixel, which are the helper's results.
C13_DowncastRounds ==
    (res.op = "rgb" /\ res.src.fmt \in {"rgb16", "rgba16"}) =>
        /\ res.out.status = "ok"
        /\ \A c \in 1 .. 3 :
              PixelOf(res.out.value)[c] = RoundedRescale(PixelOf(res.src)[c])

\* C14: all 16-bit to 8-bit conversions agree: the sample grayscale()
\* gives for a Grayscale16 or GrayscaleAlpha16 pixel of luma s equals each
\* channel rgb() gives for the Rgb16 and Rgba16 pixels [s, s, s] and
\* equals grayscale() of those pixels.
C14_SixteenBitAgree ==
    (/\ res.op = "grayscale"
     /\ res.src.fmt \in {"grayscale16", "grayscale_alpha16"}) =>
        LET s == PixelOf(res.src)[1]
            g == PixelOf(res.out.value)[1]
            wide == {OnePixel("rgb16", <<s, s, s>>)}
                       \cup {OnePixel("rgba16", <<s, s, s, a>>) : a \in Alphas16}
        IN  \A x \in wide :
               /\ PixelOf(Rgb(x).value) = <<g, g, g>>
               /\ PixelOf(Grayscale(x).value) = <<g>>

\* C15: for every 8-bit Rgb pixel [R, G, B] and Rgba pixel [R, G, B, A],
\* grayscale() yields the single sample
\* round(0.299 * R + 0.587 * G + 0.114 * B), a value in 0 .. 255.
C15_LumaFormula ==
    (res.op = "grayscale" /\ res.src.fmt \in {"rgb", "rgba"}) =>
        /\ res.out.status = "ok"
        /\ PixelOf(res.out.value) = <<RoundedLuma(PixelOf(res.src))>>
        /\ PixelOf(res.out.value)[1] \in 0 .. 255

\* C16: hsv() of an 8-bit Rgb pixel [R, G, B] yields
\* Value = max(R, G, B) / 255 and Saturation = 0 if max(R, G, B) = 0,
\* else (max - min) / max, max and min taken over all three channels.
C16_SaturationValue ==
    (res.op = "hsv" /\ res.src.fmt = "rgb") =>
        LET rgb == PixelOf(res.src)
            max == Max3(rgb)
            min == Min3(rgb)
        IN  /\ res.out.status = "ok"
            /\ PixelOf(res.out.value)[3] = Rat(max, 255)
            /\ PixelOf(res.out.value)[2] =
                  IF max = 0 THEN FromInt(0) ELSE Rat(max - min, max)

\* C17: hsv() of an 8-bit Rgb pixel yields hue 0 when
\* max(R, G, B) = min(R, G, B), otherwise ((g' - b') / delta) mod 6 when
\* the maximum is R, ((b' - r') / delta) + 2 when it is G and
\* ((r' - g') / delta) + 4 when it is B; the hue is a number for every
\* pixel (never the result of a division by zero).
C17_Hue ==
    (res.op = "hsv" /\ res.src.fmt = "rgb") =>
        LET rgb == PixelOf(res.src)
            max == Max3(rgb)
            delta == max - Min3(rgb)
            hue == IF delta = 0 THEN FromInt(0)
                   ELSE IF max = rgb[1]
                   THEN FMod(Rat(rgb[2] - rgb[3], delta), FromInt(6))
                   ELSE IF max = rgb[2]
                   THEN FAdd(Rat(rgb[3] - rgb[1], delta), FromInt(2))
                   ELSE FAdd(Rat(rgb[1] - rgb[2], delta), FromInt(4))
        IN  /\ res.out.status = "ok"
            /\ PixelOf(res.out.value)[1].d # 0
            /\ PixelOf(res.out.value)[1] = hue

\* the channels the HSV to RGB formula gives: round((c + m) * 255) with
\* chroma = S * V, x = chroma * (1 - |(H / 60) mod 2 - 1|), m = V - chroma
\* and (r', g', b') chosen by the 60-degree sector of H in [0, 360)
SectorFormula(hsv) ==
    LET chroma == FMul(hsv[2], hsv[3])
        x == FMul(chroma,
                  FSub(FromInt(1),
                       FAbs(FSub(FMod(FDiv(hsv[1], FromInt(60)), FromInt(2)),
                                 FromInt(1)))))
        m == FSub(hsv[3], chroma)
        zero == FromInt(0)
        sector == FFloor(FDiv(hsv[1], FromInt(60)))
        prime == CASE sector = 0 -> <<chroma, x, zero>>
                   [] sector = 1 -> <<x, chroma, zero>>
                   [] sector = 2 -> <<zero, chroma, x>>
                   [] sector = 3 -> <<zero, x, chroma>>
                   [] sector = 4 -> <<x, zero, chroma>>
                   [] sector = 5 -> <<chroma, zero, x>>
        channel(c) == FFloor(FAdd(FMul(FAdd(c, m), FromInt(255)), F32(1, 2)))
    IN  <<channel(prime[1]), channel(prime[2]), channel(prime[3])>>

\* H in [0, 360) and S, V in [0, 1]
InHsvRange(hsv) ==
    /\ FGe(hsv[1], FromInt(0)) /\ FLt(hsv[1], FromInt(360))
    /\ \A c \in 2 .. 3 : FGe(hsv[c], FromInt(0)) /\ FGe(FromInt(1), hsv[c])

\* C18: rgb() of an Hsv pixel (H, S, V) with H in [0, 360) and S, V in
\* [0, 1] yields the channels of the sector formula with m = V - chroma.
C18_HsvToRgbFormula ==
    (res.op = "rgb" /\ res.src.fmt = "hsv" /\ InHsvRange(PixelOf(res.src))) =>
        /\ res.out.status = "ok"
        /\ PixelOf(res.out.value) = SectorFormula(PixelOf(res.src))

\* C19: for every 8-bit RGB triple [r, g, b], Image::Rgb([r, g, b]).hsv()
\* followed by .rgb() returns a pixel within 1 of [r, g, b] on each
\* channel.
C19_RoundTrip ==
    (res.op = "rgb" /\ res.args # <<>> /\ res.args[1].fmt = "rgb") =>
        /\ res.out.status = "ok"
        /\ \A c \in 1 .. 3 :
              Abs(PixelOf(res.out.value)[c] - PixelOf(res.args[1])[c]) <= 1

\* C20: rgb() of an Hsv pixel whose hue is negative or >= 360 returns Ok
\* and the pixel is black [0, 0, 0], for every saturation and value.
C20_HueFallbackBlack ==
    (/\ res.op = "rgb" /\ res.src.fmt = "hsv"
     /\ \/ FLt(PixelOf(res.src)[1], FromInt(0))
        \/ FGe(PixelOf(res.src)[1], FromInt(360))) =>
        /\ res.out.status = "ok"
        /\ PixelOf(res.out.value) = <<0, 0, 0>>

---------------------------------------------------------------------------
(* Properties of io::write (checked under IoSpec).                         *)

\* the grid of im has at least the declared width * height cells
GridHoldsDeclared(im) ==
    LET cells == im.pixels.nrows * im.pixels.ncols
    IN  \/ im.width = 0 \/ im.height = 0
        \/ (im.width <= cells /\ im.height <= cells
                /\ im.width * im.height <= cells)

\* C21 as stated: io::write of an ImageHsv always returns an
\* InvalidColorType error naming "hsv" before any buffer is built or file
\* saved, and every other variant reaches the encoder.
C21_WriteRejectsOnlyHsv ==
    res.op = "write" =>
        IF res.src.fmt = "hsv"
        THEN /\ res.out.status = "err"
             /\ res.out.err = ErrorKind("InvalidColorType", <<"hsv">>)
             /\ res.out.value = Written(FALSE, FALSE)
        ELSE res.out.value.built

\* C21, amended: io::write of an ImageHsv always returns an
\* InvalidColorType error naming "hsv" before any buffer is built or file
\* saved; no other variant is rejected with InvalidColorType, and every
\* other variant whose grid has at least the declared width * height cells
\* reaches the encoder.
C21_WriteRejectsOnlyHsvWhenGridFits ==
    res.op = "write" =>
        IF res.src.fmt = "hsv"
        THEN /\ res.out.status = "err"
             /\ res.out.err = ErrorKind("InvalidColorType", <<"hsv">>)
             /\ res.out.value = Written(FALSE, FALSE)
        ELSE /\ res.out.status = "err" => res.out.err.kind # "InvalidColorType"
             /\ GridHoldsDeclared(res.src) => res.out.value.built

\* write rejected an Hsv image whose declared dimensions match its grid of
\* two pixels
C21_Witness ==
    /\ res.op = "write" /\ res.src.fmt = "hsv"
    /\ Consistent(res.src) /\ res.src.width = 2 /\ res.src.height = 1
    /\ res.out.status = "err"

\* C30: io::write of a non-Hsv image whose flattened sample count (grid
\* rows * columns * N) is smaller than the declared width * height * N
\* returns an InsufficientBufferSize error and saves no file; when the
\* declared dimensions match the grid the buffer is always constructed.
C30_WriteBufferSize ==
    (res.op = "write" /\ res.src.fmt # "hsv") =>
        /\ ~GridHoldsDeclared(res.src) =>
              /\ res.out.status = "err"
              /\ res.out.err.kind = "InsufficientBufferSize"
              /\ res.out.value = Written(FALSE, FALSE)
        /\ Consistent(res.src) => res.out.value.built

\* write refused an Rgb16 image declared two wide and two high over a
\* grid of one row and two columns
C30_Witness ==
    /\ res.op = "write" /\ res.src.fmt = "rgb16"
    /\ res.src.width = 2 /\ res.src.height = 2
    /\ res.src.pixels.nrows = 1 /\ res.src.pixels.ncols = 2
    /\ res.out.status = "err"
    /\ res.out.err.kind = "InsufficientBufferSize"

---------------------------------------------------------------------------
(* Properties of the conversions on images that differ in alpha (checked   *)
(* under ColorSpec).                                                       *)

\* the variants whose last channel is alpha, and alpha samples
AlphaFormats == {"grayscale_alpha", "rgba", "grayscale_alpha16", "rgba16"}
AlphaSamples(fmt) ==
    IF fmt \in {"grayscale_alpha", "rgba"} THEN Alphas8 ELSE Alphas16

\* the image im with the alpha sample of every pixel replaced by alpha;
\* two images equal on the non-alpha channels give the same one
WithAlpha(im, alpha) ==
    [im EXCEPT !.pixels.data =
        [rc \in DOMAIN @ |-> [@[rc] EXCEPT ![Channels(im.fmt)] = alpha]]]

\* the conversion named op applied to im
Convert(op, im) ==
    CASE op = "grayscale" -> Grayscale(im)
      [] op = "rgb" -> Rgb(im)
      [] op = "hsv" -> Hsv(im)

\* C22: alpha never influences a conversion: an image with an alpha
\* channel has the grayscale(), and, for Rgba and Rgba16, the rgb() and
\* hsv(), of the image equal to it on the non-alpha channels whose alpha
\* is the same everywhere (so any two images equal on the non-alpha
\* channels have the same ones); rgb() of an Rgba pixel [R, G, B, A] is
\* [R, G, B].
C22_AlphaIgnored ==
    (res.op \in {"grayscale", "rgb", "hsv"} /\ res.src.fmt \in AlphaFormats) =>
        /\ \A alpha \in AlphaSamples(res.src.fmt) :
              Convert(res.op, WithAlpha(res.src, alpha)) = res.out
        /\ (res.op = "grayscale"
                \/ res.src.fmt \in {"rgba", "rgba16"}) => res.out.status = "ok"
        /\ (res.op = "rgb" /\ res.src.fmt = "rgba") =>
              \A rc \in DOMAIN res.src.pixels.data :
                  res.out.value.pixels.data[rc] =
                      SubSeq(res.src.pixels.data[rc], 1, 3)

\* rgb converted an Rgba image holding two pixels that differ in alpha
\* only, and gave them the same colour
C22_Witness ==
    /\ res.op = "rgb" /\ res.src.fmt = "rgba" /\ res.out.status = "ok"
    /\ \E rc1, rc2 \in DOMAIN res.src.pixels.data :
          /\ res.src.pixels.data[rc1] = <<10, 20, 200, 255>>
          /\ res.src.pixels.data[rc2] = <<10, 20, 200, 7>>
          /\ res.out.value.pixels.data[rc1] = res.out.value.pixels.data[rc2]

---------------------------------------------------------------------------
(* Properties of a source and the result derived from it (checked under    *)
(* OwnSpec).                                                               *)

---------------------------------------------------------------------------
(* Properties of the images derived from a well-formed one (checked under  *)
(* DimSpec).                                                               *)

\* C24: dimension invariant: in every state reached from ImageData::new
\* called with a grid of height rows and width columns, through any
\* sequence of set_pixel_at, resize, crop, grayscale, rgb and hsv (on the
\* image or on a derived result), the declared height of the image and of
\* every result is the row count of its grid and the declared width its
\* column count.
C24_DimensionInvariant ==
    /\ Consistent(img)
    /\ (res.op \in Transforms /\ res.out.status = "ok") =>
          Consistent(res.out.value)

\* a crop of one row and two columns, taken from an image that a resize
\* of an image in which a pixel was written returned
C24_Witness ==
    /\ origin.op = "resize"
    /\ res.op = "crop" /\ res.out.status = "ok"
    /\ res.out.value.width = 2 /\ res.out.value.height = 1
    /\ \E rc \in DOMAIN img.pixels.data : img.pixels.data[rc] = Marker(img.fmt)

---------------------------------------------------------------------------
(* Further properties of ImageData (checked under Spec).                   *)

\* C25: no transform aborts: on an image whose declared dimensions match
\* its grid, get_pixel_at, set_pixel_at, flatten_pixels, resize and crop
\* return a value or an error for every argument and never panic (the
\* conversions grayscale, rgb and hsv, which have no panicking outcome,
\* are the calls of ColorSpec).
C25_NoTransformAborts ==
    (/\ res.op \in {"get_pixel_at", "set_pixel_at", "flatten_pixels",
                    "resize", "crop"}
     /\ Consistent(res.src)) =>
        res.out.status # "panic"

\* C26: set_width and set_height change only the dimension they name and
\* validate nothing, and set_pixels replaces only the grid; hence one
\* setter call takes an image whose declared dimensions match its grid to
\* one whose dimensions do not.
C26_SettersUnchecked ==
    /\ res.op = "set_width" =>
          /\ res.out.status = "ok" /\ img.width = res.args[1]
          /\ img.height = res.src.height /\ img.pixels = res.src.pixels
    /\ res.op = "set_height" =>
          /\ res.out.status = "ok" /\ img.height = res.args[1]
          /\ img.width = res.src.width /\ img.pixels = res.src.pixels
    /\ res.op = "set_pixels" =>
          /\ res.out.status = "ok" /\ img.pixels = res.args[1]
          /\ img.width = res.src.width /\ img.height = res.src.height

\* set_width(2) was called on an image of one row and one column whose
\* declared dimensions matched, and they no longer do
C26_Witness ==
    /\ res.op = "set_width" /\ res.args = <<2>>
    /\ Consistent(res.src) /\ res.src.width = 1 /\ res.src.height = 1
    /\ ~Consistent(img)

\* C28: in resize the u32 products x * src_width and y * src_height stay
\* within u32 for all x < W and y < H and all u32 dimensions, so that the
\* computed coordinate is the mathematical floor and the call neither
\* panics on overflow nor wraps.
C28_ResizeProductsFit ==
    res.op = "resize" =>
        /\ \A x \in 0 .. (res.args[1] - 1), y \in 0 .. (res.args[2] - 1) :
              /\ ~MulOverflows(x, res.src.width)
              /\ ~MulOverflows(y, res.src.height)
              /\ WrappingMulDiv(x, res.src.width, res.args[1]) =
                    FloorMulDiv(x, res.src.width, res.args[1])
              /\ WrappingMulDiv(y, res.src.height, res.args[2]) =
                    FloorMulDiv(y, res.src.height, res.args[2])
        /\ Consistent(res.src) => res.out.status = "ok"

---------------------------------------------------------------------------
(* Properties of pixels written and read back (checked under LogSpec).     *)

\* C27: after any sequence of set_pixel_at calls on an image whose
\* declared dimensions match its grid, get_pixel_at(x, y) in bounds
\* returns the value of the most recent set_pixel_at that returned Ok for
\* (x, y), or the initial pixel when there was none; each set_pixel_at
\* that returns Ok changes exactly the cell at row y, column x, and not
\* the width, the height or any other cell.
C27_LastWriteWins ==
    /\ (/\ res.op = "get_pixel_at"
        /\ res.args[1] < img.width /\ res.args[2] < img.height) =>
          res.out = Outcome("some", origin.from[<<res.args[1], res.args[2]>>], <<>>)
    /\ (res.op = "set_pixel_at" /\ res.out.status = "ok") =>
          /\ img.width = res.src.width /\ img.height = res.src.height
          /\ img.pixels.nrows = res.src.pixels.nrows
          /\ img.pixels.ncols = res.src.pixels.ncols
          /\ DOMAIN img.pixels.data = DOMAIN res.src.pixels.data
          /\ \A rc \in DOMAIN img.pixels.data :
                img.pixels.data[rc] =
                    IF rc = <<res.args[2], res.args[1]>>
                    THEN res.args[3]
                    ELSE res.src.pixels.data[rc]

\* get_pixel_at(1, 0) returned the value written by a set_pixel_at into an
\* image of two rows and two columns whose pixel at (0, 1) differs
C27_Witness ==
    /\ origin.op = "set_pixel_at"
    /\ res.op = "get_pixel_at" /\ res.args = <<1, 0>>
    /\ img.width = 2 /\ img.height = 2
    /\ res.out.status = "some" /\ res.out.value = <<200, 77>>
    /\ img.pixels.data[<<1, 0>>] = <<0, 0>>
    /\ origin.from[<<0, 1>>] = <<0, 0>>

---------------------------------------------------------------------------
(* Properties of resize on a wide image (checked under WideSpec).          *)

\* C29: for a source whose declared dimensions match its grid, with
\* width >= 1 and height >= 1, every source coordinate resize computes is
\* in bounds, so every destination pixel is a copy of the source pixel at
\* that coordinate and none keeps the default (a result of default
\* pixels only arises from a source of width or height 0), and
\* resize(src_width, src_height) returns a grid equal to the source.
C29_ResizeCopiesInBounds ==
    /\ (/\ res.op = "resize" /\ Consistent(res.src)
        /\ (res.src.width = 0 \/ res.src.height = 0)
        /\ res.out.status = "ok") =>
          \A rc \in DOMAIN res.out.value.pixels.data :
              res.out.value.pixels.data[rc] = DefaultPixel(res.src.fmt)
    /\ (/\ res.op = "resize" /\ Consistent(res.src)
        /\ res.src.width >= 1 /\ res.src.height >= 1) =>
        /\ res.out.status = "ok"
        /\ \A x \in 0 .. (res.args[1] - 1), y \in 0 .. (res.args[2] - 1) :
              LET old_x == WrappingMulDiv(x, res.src.width, res.args[1])
                  old_y == WrappingMulDiv(y, res.src.height, res.args[2])
              IN  /\ old_x < res.src.width /\ old_y < res.src.height
                  /\ res.out.value.pixels.data[<<y, x>>] =
                        res.src.pixels.data[<<old_y, old_x>>]
        /\ res.args = <<res.src.width, res.src.height>> =>
              res.out.value.pixels.data = res.src.pixels.data

====
